---- MODULE Spec2Model ----
(***************************************************************************)
(* Nudge: the retraining supervisor (background_trainer.py), the Model     *)
(* Store it writes (train_model.py), and the Predictor / Inference Server  *)
(* that read it (model_inference.py).                                      *)
(*                                                                         *)
(* Spec       : one supervisor process (with restarts) against an          *)
(*              append-only dataset, plus one Predictor that may load the  *)
(*              Model Store at any moment.                                 *)
(* SpecServer : one Inference Server process with concurrent               *)
(*              handle_client workers.                                     *)
(***************************************************************************)
EXTENDS Integers, Sequences, FiniteSets, TLC

\* ---------------------------------------------------------------- bounds
\* Configuration of BackgroundTrainer (constructor arguments), kept small.
min_total_samples == 2
min_new_samples == 2
\* Largest number of rows the dataset grows to.
MaxRows == 4
\* Largest number of train_model cycles started over a behaviour.
MaxCycles == 2
\* Capacity of the rolling latency window (100 in handle_client), scaled down.
MaxWindow == 1

VARIABLES
    \* Dataset Source
    csv_exists,             \* os.path.exists(csv_file)
    rows,                   \* data rows in the CSV (header excluded)
    \* Model Store (files in model_dir)
    current,                \* productivity_model.keras
    backup,                 \* productivity_model.backup.keras
    scaler,                 \* scaler.json: the training run that wrote it, 0 = no file
    state_file,             \* trainer_state.json
    \* BackgroundTrainer
    pc,                     \* position of the supervisor's main thread
    running,                \* self.running
    training_count,         \* self.training_count
    last_trained_samples,   \* self.last_trained_samples
    current_samples,        \* run(): current_samples of the last tick
    triggered,              \* run(): what should_train returned in the last tick
    exit_status,            \* process exit status, -1 while the process runs
    \* history of the supervisor (not program state)
    cycles,                 \* train_model calls started so far
    pre,                    \* Model Store and Trainer State when the cycle started
    outcome,                \* how the last cycle ended
    exit_pc,                \* where the main thread was when the signal arrived
    rows_at_commit,         \* rows in the dataset when the last commit counted them
    ever_succeeded,         \* some train_model call has returned True
    \* ProductivityPredictor reading the Model Store
    predictor,              \* its fields and the position of load_model
    \* InferenceServer
    srv,                    \* main thread: position, self.running, self.sock, exit status
    request_count,          \* self.request_count
    prediction_times,       \* self.prediction_times (each sample named by its worker)
    workers                 \* the handle_client threads, one per connection

dataVars   == <<csv_exists, rows>>
storeVars  == <<current, backup, scaler>>
trainerVars == <<pc, running, training_count, last_trained_samples,
                 current_samples, triggered, exit_status>>
histVars   == <<cycles, pre, outcome, exit_pc, rows_at_commit, ever_succeeded>>
readerVars == <<predictor>>
serverVars == <<srv, request_count, prediction_times, workers>>

vars == <<dataVars, storeVars, state_file, trainerVars, histVars, readerVars,
          serverVars>>

\* ------------------------------------------------------------ Model Store
\* An artifact file: the training run that produced its bytes and what a
\* reader gets from them.
\*   "none"    no file
\*   "partial" a file whose write has not finished (does not load)
\*   "bad"     a complete file that loads but fails the validation probe
\*   "good"    a complete file that passes validate_model
NoArtifact == [gen |-> 0, q |-> "none"]
Partial(a) == [gen |-> a.gen, q |-> "partial"]
Exists(a) == a.q # "none"

CopyOutcomes == {"ok", "failed_before", "failed_midway"}

\* shutil.copy2(src, dst): dst after the call.
copy2(src, dst, how) ==
    CASE how = "ok" -> src
      [] how = "failed_before" -> dst
      [] how = "failed_midway" -> Partial(src)

\* ----------------------------------------------------------- Trainer State
Absent == -1
MissingFile == [kind |-> "missing", tc |-> Absent, lts |-> Absent]
UndecodableFile == [kind |-> "undecodable", tc |-> Absent, lts |-> Absent]
NotObjectFile == [kind |-> "not_object", tc |-> Absent, lts |-> Absent]
ObjectFile(tc, lts) == [kind |-> "object", tc |-> tc, lts |-> lts]

load_state_all_or_nothing(f) ==
    IF f.kind = "object" /\ f.lts # Absent /\ f.tc # Absent
    THEN [last_trained_samples |-> f.lts, training_count |-> f.tc]
    ELSE [last_trained_samples |-> 0, training_count |-> 0]

\* load_state on a freshly constructed trainer (both fields 0 before it).
load_state(f) ==
    IF f.kind = "object"
    THEN [last_trained_samples |-> IF f.lts = Absent THEN 0 ELSE f.lts,
          training_count |-> IF f.tc = Absent THEN 0 ELSE f.tc]
    ELSE [last_trained_samples |-> 0, training_count |-> 0]

WriteOutcomes == {"ok", "open_failed", "write_failed"}

\* save_state: trainer_state.json after the call.
save_state(f, tc, lts, how) ==
    CASE how = "ok" -> ObjectFile(tc, lts)
      [] how = "open_failed" -> f
      [] how = "write_failed" -> UndecodableFile

\* get_sample_count: 0 when the file is missing or cannot be read.
get_sample_count(exists, n, read_ok) ==
    IF ~exists THEN 0
    ELSE IF read_ok THEN n ELSE 0

should_train_off_by_one(c, tc, lts) ==
    IF tc = 0
    THEN c > min_total_samples
    ELSE (c - lts) > min_new_samples

\* should_train(current_samples) in trainer state (tc, lts).
should_train(c, tc, lts) ==
    IF tc = 0
    THEN c >= min_total_samples
    ELSE (c - lts) >= min_new_samples

\* What validate_model can observe of the file at the current path: whether
\* it exists, whether tf.keras.models.load_model returns, whether the
\* prediction for the probe input has shape (1, 1), and pred[0][0] (a number
\* in percent, NaN, or a value the comparison raises on).
ProbeKinds == {"number", "nan", "non_numeric"}
ProbeValues == {-1, 0, 50, 100, 101}
ProbeRecords == [exists : BOOLEAN, loads : BOOLEAN, shape_ok : BOOLEAN,
                 kind : ProbeKinds, value : ProbeValues]

validate_probe_no_range_check(r) ==
    IF ~r.exists THEN FALSE
    ELSE IF ~r.loads THEN FALSE
    ELSE IF ~r.shape_ok THEN FALSE
    ELSE TRUE

\* validate_model on what it observes: missing file, exception (caught),
\* wrong shape and a scalar outside [0.0, 1.0] all return False.
validate_probe(r) ==
    IF ~r.exists THEN FALSE
    ELSE IF ~r.loads THEN FALSE
    ELSE IF ~r.shape_ok THEN FALSE
    ELSE IF r.kind = "non_numeric" THEN FALSE
    ELSE IF r.kind = "nan" THEN FALSE
    ELSE IF ~(0 <= r.value /\ r.value <= 100) THEN FALSE
    ELSE TRUE

\* The observations an artifact file gives rise to.
ArtifactProbe(a) ==
    CASE a.q = "none" -> {r \in ProbeRecords : ~r.exists}
      [] a.q = "partial" -> {r \in ProbeRecords : r.exists /\ ~r.loads}
      [] a.q = "good" ->
            {r \in ProbeRecords :
                /\ r.exists /\ r.loads /\ r.shape_ok
                /\ r.kind = "number" /\ r.value \in 0..100}
      [] a.q = "bad" ->
            {r \in ProbeRecords :
                /\ r.exists /\ r.loads
                /\ ~(/\ r.shape_ok
                     /\ r.kind = "number" /\ r.value \in 0..100)}

\* validate_model on the file at the current path.
validate_model(a) == \A r \in ArtifactProbe(a) : validate_probe(r)

rollback_model_deletes(cur, bak, how) ==
    IF Exists(bak) THEN copy2(bak, cur, how) ELSE [gen |-> 0, q |-> "none"]

\* rollback_model: the current file after the call.
rollback_model(cur, bak, how) ==
    IF Exists(bak) THEN copy2(bak, cur, how) ELSE cur

\* backup_model: the backup file after the call.
backup_model(cur, bak, how) ==
    IF Exists(cur) THEN copy2(cur, bak, how) ELSE bak

\* What a cycle starts from (kept while the cycle runs and until the sleep
\* that follows it ends).
Snapshot == [current |-> current, backup |-> backup, scaler |-> scaler,
             training_count |-> training_count,
             last_trained_samples |-> last_trained_samples,
             state_file |-> state_file]

NoSnapshot == [current |-> NoArtifact, backup |-> NoArtifact, scaler |-> 0,
               training_count |-> 0, last_trained_samples |-> 0,
               state_file |-> MissingFile]

\* ------------------------------------------------------------- Predictor
\* ProductivityPredictor: model and scaler hold the training run their bytes
\* come from (0 = None); pc is the position of __init__/load_model
\* ("none": no Predictor constructed yet).
NoPredictor == [pc |-> "none", tf |-> FALSE, model |-> 0, scaler |-> 0,
                model_loaded |-> FALSE]

\* __init__: all fields None/False, then load_model() is entered.
\* tf is TENSORFLOW_AVAILABLE of the process.
NewPredictor(tf) == [pc |-> "load_model", tf |-> tf, model |-> 0, scaler |-> 0,
                     model_loaded |-> FALSE]

\* tf.keras.models.load_model succeeds on a complete file.
Loadable(a) == a.q \in {"good", "bad"}

\* load_model up to and including self.model = load_model(model_path).
load_model_file(p, cur) ==
    IF ~Exists(cur) THEN [p EXCEPT !.pc = "done"]
    ELSE IF ~p.tf THEN [p EXCEPT !.pc = "done"]
    ELSE IF Loadable(cur) THEN [p EXCEPT !.model = cur.gen, !.pc = "load_scaler"]
    ELSE [p EXCEPT !.pc = "done"]

\* load_model from the scaler on: read_ok is whether scaler.json, when it
\* exists, could be opened and decoded.
load_scaler_file(p, sc, read_ok) ==
    IF sc # 0
    THEN IF read_ok
         THEN [p EXCEPT !.scaler = sc, !.model_loaded = TRUE, !.pc = "done"]
         ELSE [p EXCEPT !.pc = "done"]
    ELSE [p EXCEPT !.model_loaded = TRUE, !.pc = "done"]

\* A request's feature values, and what the loaded model does with them:
\* the raw probability in percent, or InferenceFails when it raises.
FeatureKinds == {"numeric", "non_numeric"}
Probabilities == {0, 50, 100}
InferenceFails == -1
InferenceOutcomes == Probabilities \cup {InferenceFails}

Abs(x) == IF x < 0 THEN -x ELSE x

\* The results predict returns (prediction -1 = None, probability -1 = no
\* such key, reason "" = no such key; confidence in percent).
NoResult == [prediction |-> -1, confidence |-> 0, probability |-> -1,
             model_available |-> FALSE, reason |-> "", raised |-> FALSE]
NoModelResult == [NoResult EXCEPT !.reason = "no_model"]
ErrorResult == [NoResult EXCEPT !.reason = "str(e)"]
Raised == [NoResult EXCEPT !.raised = TRUE]

confidence_unscaled(prob) == Abs(prob - 50)

\* confidence = abs(prob - 0.5) * 2.0, probability and confidence in percent.
confidence(prob) == Abs(prob - 50) * 2

predict_try_strict(p, feat, infer) ==
    IF feat = "non_numeric" \/ p.model = 0 \/ infer = InferenceFails
    THEN ErrorResult
    ELSE [prediction |-> IF infer > 50 THEN 1 ELSE 0,
          confidence |-> confidence(infer),
          probability |-> infer,
          model_available |-> TRUE, reason |-> "", raised |-> FALSE]

\* The try block of predict.
predict_try(p, feat, infer) ==
    IF feat = "non_numeric" \/ p.model = 0 \/ infer = InferenceFails
    THEN ErrorResult
    ELSE [prediction |-> IF infer >= 50 THEN 1 ELSE 0,
          confidence |-> confidence(infer),
          probability |-> infer,
          model_available |-> TRUE, reason |-> "", raised |-> FALSE]

predict_unguarded(p, feat, infer) == predict_try(p, feat, infer)

predict_uncaught(p, feat, infer) ==
    IF ~p.model_loaded THEN NoModelResult
    ELSE IF feat = "non_numeric" \/ infer = InferenceFails THEN Raised
    ELSE predict_try(p, feat, infer)

\* predict(foreground_app, idle_time, time_last_request)
predict(p, feat, infer) ==
    IF ~p.model_loaded THEN NoModelResult
    ELSE predict_try(p, feat, infer)

\* ------------------------------------------------------- InferenceServer
\* The connections one server process accepts, one handle_client thread each.
Workers == {1, 2}

\* The main thread of the server process ("none": not constructed);
\* shutdown_error: the signal handler raised and the accept loop caught it.
NoServer == [pc |-> "none", running |-> FALSE, sock |-> "none", exit_status |-> -1,
             shutdown_error |-> FALSE]

\* What a client sends on its connection before the worker stops reading.
RequestKinds == {"empty", "valid", "non_numeric", "malformed"}

\* A response line as the client receives it (request_id 0 = no such key,
\* error "" = no such key).
Response(r, id, err) ==
    [prediction |-> r.prediction, confidence |-> r.confidence,
     probability |-> r.probability, model_available |-> r.model_available,
     reason |-> r.reason, request_id |-> id, error |-> err]

\* error_response of handle_client's except clause.
ErrorResponse == Response(NoResult, 0, "str(e)")

\* A handle_client thread: its position, the request it read, predict's
\* result, the value of self.request_count it read for the increment, the
\* request_id it put in the result, the responses its client received, and
\* whether a conn.sendall of the thread has raised (the peer was gone).
NoWorker == [pc |-> "none", request |-> "", res |-> NoResult, tmp |-> 0,
             request_id |-> 0, sent |-> << >>, send_error |-> FALSE]

after_recv_no_empty_check(k) ==
    CASE k = "empty" -> "except"
      [] k = "malformed" -> "except"
      [] OTHER -> "predict"

after_recv_abort(k) ==
    CASE k = "empty" -> "close"
      [] k = "malformed" -> "close"
      [] OTHER -> "predict"

\* handle_client after the recv loop: no data returns (to the finally
\* clause); data that does not decode to an object raises in json.loads or
\* in request.get; anything else reaches predict.
after_recv(k) ==
    CASE k = "empty" -> "close"
      [] k = "malformed" -> "except"
      [] OTHER -> "predict"

\* ------------------------------------------------------------------ Init
InitStateFiles ==
    {MissingFile, UndecodableFile, ObjectFile(Absent, 1)}

Init ==
    /\ csv_exists = FALSE
    /\ rows = 0
    /\ current = NoArtifact
    /\ backup = NoArtifact
    /\ scaler = 0
    /\ state_file \in InitStateFiles
    /\ pc = "start"
    /\ running = FALSE
    /\ training_count = load_state(state_file).training_count
    /\ last_trained_samples = load_state(state_file).last_trained_samples
    /\ current_samples = 0
    /\ triggered = FALSE
    /\ exit_status = -1
    /\ cycles = 0
    /\ pre = NoSnapshot
    /\ outcome = "none"
    /\ exit_pc = "none"
    /\ rows_at_commit = -1
    /\ ever_succeeded = FALSE
    /\ predictor = NoPredictor
    /\ srv = NoServer
    /\ request_count = 0
    /\ prediction_times = << >>
    /\ workers = [w \in Workers |-> NoWorker]

\* -------------------------------------------------------- Dataset Source
CreateCsv ==
    /\ ~csv_exists
    /\ csv_exists' = TRUE
    /\ UNCHANGED <<rows, storeVars, state_file, trainerVars, histVars, readerVars, serverVars>>

AppendRow ==
    /\ csv_exists
    /\ rows < MaxRows
    /\ rows' = rows + 1
    /\ UNCHANGED <<csv_exists, storeVars, state_file, trainerVars, histVars, readerVars, serverVars>>

\* ------------------------------------------------------ BackgroundTrainer
\* run(): running = True, signal handlers registered.
run_start ==
    /\ pc = "start"
    /\ running' = TRUE
    /\ pc' = "loop"
    /\ UNCHANGED <<dataVars, storeVars, state_file, training_count,
                   last_trained_samples, current_samples, triggered,
                   exit_status, histVars, readerVars, serverVars>>

tick_no_csv_saves ==
    /\ pc = "loop" /\ running
    /\ ~csv_exists
    /\ state_file' = save_state(state_file, training_count, last_trained_samples, "ok")
    /\ pc' = "sleep"
    /\ UNCHANGED <<dataVars, storeVars, running, training_count,
                   last_trained_samples, current_samples, triggered,
                   exit_status, histVars, readerVars, serverVars>>

\* A tick that finds no CSV file: sleep and retry.
tick_no_csv ==
    /\ pc = "loop" /\ running
    /\ ~csv_exists
    /\ pc' = "sleep"
    /\ UNCHANGED <<dataVars, storeVars, state_file, running, training_count,
                   last_trained_samples, current_samples, triggered,
                   exit_status, histVars, readerVars, serverVars>>

\* How a train_model call that returned False ended.
FailedOutcomes == {"validation_failed", "raised"}

tick_except_fatal ==
    /\ pc = "loop" /\ running
    /\ csv_exists
    /\ current_samples' = 0
    /\ triggered' = FALSE
    /\ outcome' = "none"
    /\ exit_status' = 1
    /\ exit_pc' = pc
    /\ pc' = "exited"
    /\ UNCHANGED <<dataVars, storeVars, state_file, running, training_count,
                   last_trained_samples, cycles, pre, rows_at_commit,
                   ever_succeeded, readerVars, serverVars>>

\* A tick whose body raises outside train_model (which catches its own):
\* run()'s except clause logs it and sleeps the interval.
tick_except ==
    /\ pc = "loop" /\ running
    /\ csv_exists
    /\ current_samples' = 0
    /\ triggered' = FALSE
    /\ outcome' = "none"
    /\ pc' = "sleep"
    /\ UNCHANGED <<dataVars, storeVars, state_file, running, training_count,
                   last_trained_samples, exit_status, cycles, pre, exit_pc,
                   rows_at_commit, ever_succeeded, readerVars, serverVars>>

tick_check_never_trains ==
    /\ pc = "loop" /\ running
    /\ csv_exists
    /\ \E read_ok \in BOOLEAN :
         /\ current_samples' = get_sample_count(csv_exists, rows, read_ok)
         /\ triggered' = FALSE
         /\ outcome' = "none"
         /\ pc' = "sleep"
    /\ UNCHANGED <<dataVars, storeVars, state_file, running, training_count,
                   last_trained_samples, exit_status, cycles, pre, exit_pc,
                   rows_at_commit, ever_succeeded, readerVars, serverVars>>

\* A tick that counts the rows and applies should_train; train_model starts
\* when it returns True.
tick_check ==
    /\ pc = "loop" /\ running
    /\ csv_exists
    /\ \E read_ok \in BOOLEAN :
         LET c == get_sample_count(csv_exists, rows, read_ok)
             t == should_train(c, training_count, last_trained_samples)
         IN /\ current_samples' = c
            /\ triggered' = t
            /\ IF t
               THEN /\ cycles < MaxCycles
                    /\ cycles' = cycles + 1
                    /\ pre' = Snapshot
                    /\ outcome' = IF outcome \in FailedOutcomes
                                  THEN "retrying" ELSE "running"
                    /\ pc' = "backup"
               ELSE /\ outcome' = "none"
                    /\ pc' = "sleep"
                    /\ UNCHANGED <<cycles, pre>>
    /\ UNCHANGED <<dataVars, storeVars, state_file, running, training_count,
                   last_trained_samples, exit_status, exit_pc, rows_at_commit,
                   ever_succeeded, readerVars, serverVars>>

\* time.sleep(check_interval), back to the while test. The tick's locals are
\* dead from here on and the record of the finished cycle is dropped, except
\* that of a failed cycle the way it failed and the row count that fired it
\* are remembered until the next tick, and the dataset's size at the last
\* commit for as long as the process lives.
sleep ==
    /\ pc = "sleep"
    /\ pc' = "loop"
    /\ current_samples' = IF outcome \in FailedOutcomes THEN current_samples ELSE 0
    /\ triggered' = FALSE
    /\ pre' = NoSnapshot
    /\ outcome' = IF outcome \in FailedOutcomes THEN outcome ELSE "none"
    /\ UNCHANGED <<dataVars, storeVars, state_file, running, training_count,
                   last_trained_samples, exit_status, cycles, exit_pc,
                   rows_at_commit, ever_succeeded, readerVars, serverVars>>

train_backup_blocks ==
    /\ pc = "backup"
    /\ \E how \in CopyOutcomes :
         /\ backup' = backup_model(current, backup, how)
         /\ pc' = IF how = "ok" \/ ~Exists(current) THEN "train" ELSE "except"
    /\ UNCHANGED <<dataVars, current, scaler, state_file, running, training_count,
                   last_trained_samples, current_samples, triggered,
                   exit_status, histVars, readerVars, serverVars>>

\* train_model: backup_model(), best effort.
train_backup ==
    /\ pc = "backup"
    /\ \E how \in CopyOutcomes : backup' = backup_model(current, backup, how)
    /\ pc' = "train"
    /\ UNCHANGED <<dataVars, current, scaler, state_file, running, training_count,
                   last_trained_samples, current_samples, triggered,
                   exit_status, histVars, readerVars, serverVars>>

\* train_modern: model.save opens the current path and starts writing.
train_open_model ==
    /\ pc = "train"
    /\ current' = [gen |-> cycles, q |-> "partial"]
    /\ pc' = "saving"
    /\ UNCHANGED <<dataVars, backup, scaler, state_file, running, training_count,
                   last_trained_samples, current_samples, triggered,
                   exit_status, histVars, readerVars, serverVars>>

\* train_modern: model.save finishes; the artifact may or may not be sound.
train_write_model ==
    /\ pc = "saving"
    /\ \E q \in {"good", "bad"} : current' = [gen |-> cycles, q |-> q]
    /\ pc' = "save_scaler"
    /\ UNCHANGED <<dataVars, backup, scaler, state_file, running, training_count,
                   last_trained_samples, current_samples, triggered,
                   exit_status, histVars, readerVars, serverVars>>

\* train_modern: scaler.json written, train_modern returns.
train_write_scaler ==
    /\ pc = "save_scaler"
    /\ scaler' = cycles
    /\ pc' = "validate"
    /\ UNCHANGED <<dataVars, current, backup, state_file, running, training_count,
                   last_trained_samples, current_samples, triggered,
                   exit_status, histVars, readerVars, serverVars>>

\* train_modern raises (bad data, I/O error): train_model's except clause.
train_raise ==
    /\ pc \in {"train", "saving", "save_scaler"}
    /\ pc' = "except"
    /\ UNCHANGED <<dataVars, storeVars, state_file, running, training_count,
                   last_trained_samples, current_samples, triggered,
                   exit_status, histVars, readerVars, serverVars>>

\* train_model: validate_model() on the freshly written artifact.
train_validate ==
    /\ pc = "validate"
    /\ pc' = IF validate_model(current) THEN "commit_count" ELSE "invalid"
    /\ UNCHANGED <<dataVars, storeVars, state_file, running, training_count,
                   last_trained_samples, current_samples, triggered,
                   exit_status, histVars, readerVars, serverVars>>

train_rollback_invalid_consumes ==
    /\ pc = "invalid"
    /\ \E how \in CopyOutcomes : current' = rollback_model(current, backup, how)
    /\ last_trained_samples' = current_samples
    /\ outcome' = "validation_failed"
    /\ pc' = "sleep"
    /\ UNCHANGED <<dataVars, backup, scaler, state_file, running, training_count,
                   current_samples, triggered,
                   exit_status, cycles, pre, exit_pc, rows_at_commit, ever_succeeded, readerVars, serverVars>>

\* train_model: rollback_model() after a failed validation, return False.
train_rollback_invalid ==
    /\ pc = "invalid"
    /\ \E how \in CopyOutcomes : current' = rollback_model(current, backup, how)
    /\ outcome' = "validation_failed"
    /\ pc' = "sleep"
    /\ UNCHANGED <<dataVars, backup, scaler, state_file, running, training_count,
                   last_trained_samples, current_samples, triggered,
                   exit_status, cycles, pre, exit_pc, rows_at_commit, ever_succeeded, readerVars, serverVars>>

\* train_model: rollback_model() in the except clause, return False.
train_rollback_except ==
    /\ pc = "except"
    /\ \E how \in CopyOutcomes : current' = rollback_model(current, backup, how)
    /\ outcome' = "raised"
    /\ pc' = "sleep"
    /\ UNCHANGED <<dataVars, backup, scaler, state_file, running, training_count,
                   last_trained_samples, current_samples, triggered,
                   exit_status, cycles, pre, exit_pc, rows_at_commit, ever_succeeded, readerVars, serverVars>>

\* train_model: self.training_count += 1
commit_count ==
    /\ pc = "commit_count"
    /\ training_count' = training_count + 1
    /\ pc' = "commit_rows"
    /\ UNCHANGED <<dataVars, storeVars, state_file, running,
                   last_trained_samples, current_samples, triggered,
                   exit_status, histVars, readerVars, serverVars>>

\* train_model: self.last_trained_samples = self.get_sample_count()
commit_rows ==
    /\ pc = "commit_rows"
    /\ \E read_ok \in BOOLEAN :
         last_trained_samples' = get_sample_count(csv_exists, rows, read_ok)
    /\ rows_at_commit' = rows
    /\ pc' = "commit_save"
    /\ UNCHANGED <<dataVars, storeVars, state_file, running, training_count,
                   current_samples, triggered, exit_status, cycles, pre, outcome,
                   exit_pc, ever_succeeded, readerVars, serverVars>>

\* train_model: self.save_state(), return True.
commit_save ==
    /\ pc = "commit_save"
    /\ \E how \in WriteOutcomes :
         state_file' = save_state(state_file, training_count, last_trained_samples, how)
    /\ outcome' = "success"
    /\ ever_succeeded' = TRUE
    /\ pc' = "sleep"
    /\ UNCHANGED <<dataVars, storeVars, running, training_count,
                   last_trained_samples, current_samples, triggered,
                   exit_status, cycles, pre, exit_pc, rows_at_commit, readerVars, serverVars>>

InCycle == {"backup", "train", "saving", "save_scaler", "validate", "invalid",
            "except", "commit_count", "commit_rows", "commit_save"}

\* shutdown(): the SIGINT/SIGTERM handler, run in the main thread wherever it
\* is; sys.exit(0) unwinds the main thread (SystemExit is no Exception).
shutdown ==
    /\ pc \notin {"start", "exited"}
    /\ \E how \in WriteOutcomes :
         state_file' = save_state(state_file, training_count, last_trained_samples, how)
    /\ running' = FALSE
    /\ exit_status' = 0
    /\ exit_pc' = pc
    /\ outcome' = IF pc \in InCycle THEN "abandoned" ELSE outcome
    /\ pc' = "exited"
    /\ UNCHANGED <<dataVars, storeVars, training_count, last_trained_samples,
                   current_samples, triggered, cycles, pre, rows_at_commit,
                   ever_succeeded, readerVars, serverVars>>

\* A new supervisor process constructed on the same model directory.
restart ==
    /\ pc = "exited"
    /\ pc' = "start"
    /\ running' = FALSE
    /\ training_count' = load_state(state_file).training_count
    /\ last_trained_samples' = load_state(state_file).last_trained_samples
    /\ current_samples' = 0
    /\ triggered' = FALSE
    /\ exit_status' = -1
    /\ exit_pc' = "none"
    /\ outcome' = "none"
    /\ pre' = NoSnapshot
    /\ rows_at_commit' = -1
    /\ UNCHANGED <<dataVars, storeVars, state_file, cycles, ever_succeeded, readerVars, serverVars>>

\* ------------------------------------------- a Predictor reading the store
\* ProductivityPredictor(model_dir) is constructed (a new reader process).
predictor_new ==
    /\ \E tf \in BOOLEAN : predictor' = NewPredictor(tf)
    /\ UNCHANGED <<dataVars, storeVars, state_file, trainerVars, histVars, serverVars>>

predictor_load_model ==
    /\ predictor.pc = "load_model"
    /\ predictor' = load_model_file(predictor, current)
    /\ UNCHANGED <<dataVars, storeVars, state_file, trainerVars, histVars, serverVars>>

predictor_load_scaler ==
    /\ predictor.pc = "load_scaler"
    /\ \E read_ok \in BOOLEAN :
         predictor' = load_scaler_file(predictor, scaler, read_ok)
    /\ UNCHANGED <<dataVars, storeVars, state_file, trainerVars, histVars, serverVars>>

Next ==
    \/ CreateCsv
    \/ AppendRow
    \/ run_start
    \/ tick_no_csv
    \/ tick_check
    \/ tick_except
    \/ sleep
    \/ train_backup
    \/ train_open_model
    \/ train_write_model
    \/ train_write_scaler
    \/ train_raise
    \/ train_validate
    \/ train_rollback_invalid
    \/ train_rollback_except
    \/ commit_count
    \/ commit_rows
    \/ commit_save
    \/ shutdown
    \/ restart

Spec == Init /\ [][Next]_vars

\* The steps of the supervisor's main thread: it keeps executing (every
\* time.sleep returns, every call of a cycle returns or raises).
SupervisorStep ==
    \/ run_start
    \/ tick_no_csv
    \/ tick_check
    \/ tick_except
    \/ sleep
    \/ train_backup
    \/ train_open_model
    \/ train_write_model
    \/ train_write_scaler
    \/ train_raise
    \/ train_validate
    \/ train_rollback_invalid
    \/ train_rollback_except
    \/ commit_count
    \/ commit_rows
    \/ commit_save

SpecLive == Init /\ [][Next]_vars /\ WF_vars(SupervisorStep)

\* The supervisor together with a Predictor that loads at any moment.
NextStore ==
    \/ Next
    \/ predictor_new
    \/ predictor_load_model
    \/ predictor_load_scaler

SpecStore == Init /\ [][NextStore]_vars

\* ------------------------------------------------------- InferenceServer
\* The Model Store an Inference Server process may find when it starts.
ServerStores ==
    {[current |-> NoArtifact, scaler |-> 0],
     [current |-> [gen |-> 1, q |-> "partial"], scaler |-> 0],
     [current |-> [gen |-> 1, q |-> "good"], scaler |-> 0],
     [current |-> [gen |-> 1, q |-> "good"], scaler |-> 1]}

InitServer ==
    /\ csv_exists = FALSE
    /\ rows = 0
    /\ \E st \in ServerStores : current = st.current /\ scaler = st.scaler
    /\ backup = NoArtifact
    /\ state_file = MissingFile
    /\ pc = "start"
    /\ running = FALSE
    /\ training_count = 0
    /\ last_trained_samples = 0
    /\ current_samples = 0
    /\ triggered = FALSE
    /\ exit_status = -1
    /\ cycles = 0
    /\ pre = NoSnapshot
    /\ outcome = "none"
    /\ exit_pc = "none"
    /\ rows_at_commit = -1
    /\ ever_succeeded = FALSE
    /\ predictor = NoPredictor
    /\ srv = NoServer
    /\ request_count = 0
    /\ prediction_times = << >>
    /\ workers = [w \in Workers |-> NoWorker]

notServer == <<dataVars, storeVars, state_file, trainerVars, histVars>>

\* InferenceServer.__init__: the Predictor is constructed and load_model entered.
server_init ==
    /\ srv.pc = "none"
    /\ \E tf \in BOOLEAN : predictor' = NewPredictor(tf)
    /\ srv' = [srv EXCEPT !.pc = "init"]
    /\ UNCHANGED <<notServer, request_count, prediction_times, workers>>

\* start(): bind, listen, running = True, signal handlers registered.
server_start ==
    /\ srv.pc = "init"
    /\ predictor.pc = "done"
    /\ srv' = [srv EXCEPT !.pc = "accept", !.running = TRUE, !.sock = "listening"]
    /\ UNCHANGED <<notServer, predictor, request_count, prediction_times, workers>>

accept_waits(w) ==
    /\ srv.pc = "accept" /\ srv.running
    /\ workers[w].pc = "none"
    /\ \A v \in Workers : v < w => workers[v].pc = "closed"
    /\ workers' = [workers EXCEPT ![w].pc = "recv"]
    /\ UNCHANGED <<notServer, predictor, srv, request_count, prediction_times>>

\* The accept loop takes a connection and starts its handle_client thread
\* (threads are numbered in the order their connections are accepted).
accept(w) ==
    /\ srv.pc = "accept" /\ srv.running
    /\ workers[w].pc = "none"
    /\ \A v \in Workers : v < w => workers[v].pc # "none"
    /\ workers' = [workers EXCEPT ![w].pc = "recv"]
    /\ UNCHANGED <<notServer, predictor, srv, request_count, prediction_times>>

\* handle_client: the recv loop and json.loads. Empty data returns at once;
\* undecodable data raises into the except clause.
w_read(w) ==
    /\ srv.pc = "accept"
    /\ workers[w].pc = "recv"
    /\ \E k \in RequestKinds :
         workers' = [workers EXCEPT ![w].request = k,
                                    ![w].pc = after_recv(k)]
    /\ UNCHANGED <<notServer, predictor, srv, request_count, prediction_times>>

w_predict_reloads(w) ==
    /\ srv.pc = "accept"
    /\ workers[w].pc = "predict"
    /\ predictor' = IF Loadable(current)
                    THEN [predictor EXCEPT !.model = current.gen,
                                           !.scaler = scaler,
                                           !.model_loaded = TRUE]
                    ELSE predictor
    /\ \E infer \in InferenceOutcomes :
         LET feat == IF workers[w].request = "valid" THEN "numeric" ELSE "non_numeric"
             r == predict(predictor', feat, infer)
         IN workers' = [workers EXCEPT ![w].res = r,
                                       ![w].pc = IF r.raised THEN "except" ELSE "append"]
    /\ UNCHANGED <<notServer, srv, request_count, prediction_times>>

\* handle_client: result = self.predictor.predict(...)
w_predict(w) ==
    /\ srv.pc = "accept"
    /\ workers[w].pc = "predict"
    /\ \E infer \in InferenceOutcomes :
         LET feat == IF workers[w].request = "valid" THEN "numeric" ELSE "non_numeric"
             r == predict(predictor, feat, infer)
         IN workers' = [workers EXCEPT ![w].res = r,
                                       ![w].pc = IF r.raised THEN "except" ELSE "append"]
    /\ UNCHANGED <<notServer, predictor, srv, request_count, prediction_times>>

\* handle_client: self.prediction_times.append(prediction_time)
w_append(w) ==
    /\ srv.pc = "accept"
    /\ workers[w].pc = "append"
    /\ prediction_times' = Append(prediction_times, w)
    /\ workers' = [workers EXCEPT ![w].pc = "trim"]
    /\ UNCHANGED <<notServer, predictor, srv, request_count>>

\* handle_client: if len(self.prediction_times) > 100, the test alone (no
\* lock is held between it and the pop).
w_trim(w) ==
    /\ srv.pc = "accept"
    /\ workers[w].pc = "trim"
    /\ workers' = [workers EXCEPT ![w].pc = IF Len(prediction_times) > MaxWindow
                                            THEN "pop" ELSE "count_load"]
    /\ UNCHANGED <<notServer, predictor, srv, request_count, prediction_times>>

\* handle_client: self.prediction_times.pop(0); it raises on an empty list.
w_pop(w) ==
    /\ srv.pc = "accept"
    /\ workers[w].pc = "pop"
    /\ IF Len(prediction_times) = 0
       THEN /\ workers' = [workers EXCEPT ![w].pc = "except"]
            /\ UNCHANGED prediction_times
       ELSE /\ prediction_times' = Tail(prediction_times)
            /\ workers' = [workers EXCEPT ![w].pc = "count_load"]
    /\ UNCHANGED <<notServer, predictor, srv, request_count>>

\* handle_client: self.request_count += 1, the read of the attribute
w_count_load(w) ==
    /\ srv.pc = "accept"
    /\ workers[w].pc = "count_load"
    /\ workers' = [workers EXCEPT ![w].tmp = request_count, ![w].pc = "count_store"]
    /\ UNCHANGED <<notServer, predictor, srv, request_count, prediction_times>>

\* handle_client: self.request_count += 1, the store of the sum
w_count_store(w) ==
    /\ srv.pc = "accept"
    /\ workers[w].pc = "count_store"
    /\ request_count' = workers[w].tmp + 1
    /\ workers' = [workers EXCEPT ![w].tmp = 0, ![w].pc = "set_id"]
    /\ UNCHANGED <<notServer, predictor, srv, prediction_times>>

\* handle_client: result['request_id'] = self.request_count
w_set_id(w) ==
    /\ srv.pc = "accept"
    /\ workers[w].pc = "set_id"
    /\ workers' = [workers EXCEPT ![w].request_id = request_count, ![w].pc = "send"]
    /\ UNCHANGED <<notServer, predictor, srv, request_count, prediction_times>>

w_send_keeps_open(w) ==
    /\ srv.pc = "accept"
    /\ workers[w].pc = "send"
    /\ \E ok \in BOOLEAN :
         workers' = [workers EXCEPT
            ![w].sent = IF ok
                        THEN Append(@, Response(workers[w].res, workers[w].request_id, ""))
                        ELSE @,
            ![w].res = NoResult,
            ![w].request_id = 0,
            ![w].send_error = IF ok THEN @ ELSE TRUE,
            ![w].pc = IF ok THEN "recv" ELSE "except"]
    /\ UNCHANGED <<notServer, predictor, srv, request_count, prediction_times>>

\* handle_client: conn.sendall(response); it raises when the peer is gone
\* (the except clause uses none of the locals set so far).
w_send(w) ==
    /\ srv.pc = "accept"
    /\ workers[w].pc = "send"
    /\ \E ok \in BOOLEAN :
         workers' = [workers EXCEPT
            ![w].sent = IF ok
                        THEN Append(@, Response(workers[w].res, workers[w].request_id, ""))
                        ELSE @,
            ![w].res = IF ok THEN @ ELSE NoResult,
            ![w].request_id = IF ok THEN @ ELSE 0,
            ![w].send_error = IF ok THEN @ ELSE TRUE,
            ![w].pc = IF ok THEN "close" ELSE "except"]
    /\ UNCHANGED <<notServer, predictor, srv, request_count, prediction_times>>

w_except_stops_server(w) ==
    /\ srv.pc = "accept"
    /\ workers[w].pc = "except"
    /\ \E ok \in BOOLEAN :
         workers' = [workers EXCEPT
            ![w].sent = IF ok THEN Append(@, ErrorResponse) ELSE @,
            ![w].send_error = IF ok THEN @ ELSE TRUE,
            ![w].pc = "close"]
    /\ srv' = [srv EXCEPT !.running = FALSE]
    /\ UNCHANGED <<notServer, predictor, request_count, prediction_times>>

\* handle_client: the except clause sends error_response, best effort.
w_except(w) ==
    /\ srv.pc = "accept"
    /\ workers[w].pc = "except"
    /\ \E ok \in BOOLEAN :
         workers' = [workers EXCEPT
            ![w].sent = IF ok THEN Append(@, ErrorResponse) ELSE @,
            ![w].send_error = IF ok THEN @ ELSE TRUE,
            ![w].pc = "close"]
    /\ UNCHANGED <<notServer, predictor, srv, request_count, prediction_times>>

\* handle_client: finally: conn.close(); the thread ends and its locals with it.
w_close(w) ==
    /\ srv.pc = "accept"
    /\ workers[w].pc = "close"
    /\ workers' = [workers EXCEPT ![w].pc = "closed", ![w].res = NoResult,
                                  ![w].request_id = 0]
    /\ UNCHANGED <<notServer, predictor, srv, request_count, prediction_times>>

server_shutdown_keeps_listening ==
    /\ srv.pc = "accept"
    /\ srv' = [srv EXCEPT !.pc = "exited", !.running = FALSE, !.exit_status = 0]
    /\ UNCHANGED <<notServer, predictor, request_count, prediction_times, workers>>

\* InferenceServer.shutdown: the SIGINT/SIGTERM handler in the main thread.
\* The statistics divide by len(prediction_times): on an empty window the
\* handler raises ZeroDivisionError into the accept loop, whose except
\* Exception logs it and goes on accepting. Otherwise running = False, the
\* socket is closed and sys.exit(0) ends the process with its daemon threads.
server_shutdown ==
    /\ srv.pc = "accept"
    /\ IF request_count > 0 /\ Len(prediction_times) = 0
       THEN srv' = [srv EXCEPT !.shutdown_error = TRUE]
       ELSE srv' = [srv EXCEPT !.pc = "exited", !.running = FALSE,
                               !.sock = "closed", !.exit_status = 0]
    /\ UNCHANGED <<notServer, predictor, request_count, prediction_times, workers>>

NextServer ==
    \/ server_init
    \/ predictor_load_model
    \/ predictor_load_scaler
    \/ server_start
    \/ \E w \in Workers : accept(w)
    \/ \E w \in Workers : w_read(w)
    \/ \E w \in Workers : w_predict(w)
    \/ \E w \in Workers : w_append(w)
    \/ \E w \in Workers : w_trim(w)
    \/ \E w \in Workers : w_pop(w)
    \/ \E w \in Workers : w_count_load(w)
    \/ \E w \in Workers : w_count_store(w)
    \/ \E w \in Workers : w_set_id(w)
    \/ \E w \in Workers : w_send(w)
    \/ \E w \in Workers : w_except(w)
    \/ \E w \in Workers : w_close(w)
    \/ server_shutdown

SpecServer == InitServer /\ [][NextServer]_vars

\* The steps of one handle_client thread.
WorkerStep(w) ==
    \/ w_read(w)
    \/ w_predict(w)
    \/ w_append(w)
    \/ w_trim(w)
    \/ w_pop(w)
    \/ w_count_load(w)
    \/ w_count_store(w)
    \/ w_set_id(w)
    \/ w_send(w)
    \/ w_except(w)
    \/ w_close(w)

\* The steps a handle_client thread takes on its own. conn.recv has no
\* timeout (the accepted socket is blocking), so w_read happens only when
\* the peer sends or closes.
WorkerRun(w) ==
    \/ w_predict(w)
    \/ w_append(w)
    \/ w_trim(w)
    \/ w_pop(w)
    \/ w_count_load(w)
    \/ w_count_store(w)
    \/ w_set_id(w)
    \/ w_send(w)
    \/ w_except(w)
    \/ w_close(w)

\* The server with its threads scheduled fairly; nothing is assumed of the
\* clients, of arriving connections or of the termination signal.
SpecServerLive ==
    /\ InitServer
    /\ [][NextServer]_vars
    /\ \A w \in Workers : WF_vars(WorkerRun(w))

\* The supervisor replaces the Model Store under a running server: a later
\* training run's artifact and scaler.json are written to model_dir.
store_change ==
    /\ srv.pc = "accept"
    /\ current.gen # 2
    /\ current' = [gen |-> 2, q |-> "good"]
    /\ scaler' = 2
    /\ UNCHANGED <<dataVars, backup, state_file, trainerVars, histVars,
                   readerVars, serverVars>>

NextServing ==
    \/ NextServer
    \/ store_change

\* An Inference Server process running while the Model Store is retrained.
SpecServing == InitServer /\ [][NextServing]_vars

\* ======================================================================
\* Claims about the retraining supervisor and the Model Store
\* ======================================================================

\* The trigger policy as the specification states it.
TriggerPolicy(c, tc, lts) ==
    \/ tc = 0 /\ c >= min_total_samples
    \/ tc > 0 /\ c - lts >= min_new_samples

\* C1: for every row count c and every supervisor state, should_train(c) is
\* the trigger policy (first training: c >= min_total_samples whatever
\* last_trained_samples is; later: c - last_trained_samples >=
\* min_new_samples), and the polling loop starts a cycle exactly when the
\* policy holds of the count it measured.
C1_ShouldTrainIsTriggerPolicy ==
    /\ \A c \in 0..(MaxRows + 1) :
          should_train(c, training_count, last_trained_samples)
            = TriggerPolicy(c, training_count, last_trained_samples)
    /\ pc \in InCycle =>
          /\ triggered
          /\ TriggerPolicy(current_samples, pre.training_count,
                           pre.last_trained_samples)
    /\ (pc = "sleep" /\ outcome = "none") =>
          /\ ~triggered
          /\ ~TriggerPolicy(current_samples, training_count, last_trained_samples)

\* C1 witness: a first training (training_count = 0, with a non-zero
\* last_trained_samples) triggered exactly at c = min_total_samples.
C1_Witness ==
    /\ pc = "backup"
    /\ triggered
    /\ training_count = 0
    /\ last_trained_samples > 0
    /\ current_samples = min_total_samples

\* C2: a cycle that ends because validate_model returned False leaves the
\* current artifact byte-identical to the one before the cycle and Trainer
\* State (in memory and persisted) unchanged.
C2_FailedValidationRestoresPreCycle ==
    (pc = "sleep" /\ outcome = "validation_failed") =>
        /\ current = pre.current
        /\ training_count = pre.training_count
        /\ last_trained_samples = pre.last_trained_samples
        /\ state_file = pre.state_file

\* C3: a cycle that returns True leaves training_count one above its
\* pre-cycle value, last_trained_samples equal to the dataset's row count at
\* commit time, and the persisted Trainer State holding the same two values.
C3_SuccessCommitsCountAndRows ==
    (pc = "sleep" /\ outcome = "success") =>
        /\ training_count = pre.training_count + 1
        /\ last_trained_samples = rows_at_commit
        /\ state_file = ObjectFile(training_count, last_trained_samples)

\* C4: within a supervisor process last_trained_samples never decreases, and
\* it changes only in the commit of a cycle that trained and validated.
C4_RowsConsumedMonotonic ==
    [][pc # "exited" =>
         /\ last_trained_samples' >= last_trained_samples
         /\ last_trained_samples' # last_trained_samples => pc = "commit_rows"]_vars

\* C5: once a training cycle has succeeded, the file at the current path is
\* at every moment a complete artifact that passes validation.
C5_CurrentAlwaysServable ==
    ever_succeeded => current.q = "good"

\* C6: when the supervisor has exited on a termination signal, the exit
\* status is 0, no cycle was abandoned between the artifact write and its
\* commit or rollback, and the Trainer State persisted at shutdown does not
\* hold a training_count incremented without the cycle's last_trained_samples.
AfterArtifactWrite ==
    {"saving", "save_scaler", "validate", "invalid", "except",
     "commit_count", "commit_rows", "commit_save"}

C6_ShutdownCompletesCommit ==
    pc = "exited" =>
        /\ exit_status = 0
        /\ exit_pc \notin AfterArtifactWrite
        /\ ~(/\ exit_pc = "commit_rows"
             /\ state_file = ObjectFile(pre.training_count + 1,
                                        pre.last_trained_samples))

\* C8 (its serving clause): a loaded Predictor that holds a normalization
\* transform holds the one fitted in the training run of its model.
C8_TransformMatchesModel ==
    (predictor.pc = "done" /\ predictor.model_loaded /\ predictor.scaler # 0) =>
        predictor.scaler = predictor.model

\* ======================================================================
\* Claims about the Predictor and the Inference Server
\* ======================================================================

\* The responses that carry a request_id (error_response carries none).
Results(w) == {i \in 1..Len(workers[w].sent) : workers[w].sent[i].error = ""}

\* Positions of handle_client between predict's return and the send.
HasResult == {"append", "trim", "pop", "count_load", "count_store", "set_id", "send"}

\* C7 (its first clause): the request_id values sent in responses are
\* strictly positive and pairwise distinct under every interleaving of the
\* handle_client threads.
C7_RequestIdsDistinct ==
    \A v \in Workers : \A i \in Results(v) :
        /\ workers[v].sent[i].request_id > 0
        /\ \A w \in Workers \ {v} : \A j \in Results(w) :
              workers[w].sent[j].request_id # workers[v].sent[i].request_id

\* C9: on a Predictor with no loaded model (file missing, TensorFlow missing
\* or load failed) predict returns, for every input, prediction None,
\* confidence 0.0, model_available False and reason 'no_model', and raises
\* nothing: so does every predict call a handle_client thread has made.
C9_NoModelResult ==
    (predictor.pc = "done" /\ ~predictor.model_loaded) =>
        /\ \A feat \in FeatureKinds : \A infer \in InferenceOutcomes :
              LET r == predict(predictor, feat, infer)
              IN /\ r.prediction = -1
                 /\ r.confidence = 0
                 /\ ~r.model_available
                 /\ r.reason = "no_model"
                 /\ ~r.raised
        /\ \A w \in Workers :
              /\ workers[w].pc \in HasResult => workers[w].res = NoModelResult
              /\ \A i \in Results(w) :
                    /\ workers[w].sent[i].reason = "no_model"
                    /\ ~workers[w].sent[i].model_available
                    /\ workers[w].sent[i].confidence = 0
                    /\ workers[w].sent[i].prediction = -1

\* C9 witness: a Predictor whose load failed after the model was read, and a
\* client with non-numeric features that received the 'no_model' result.
C9_Witness ==
    /\ predictor.pc = "done"
    /\ ~predictor.model_loaded
    /\ predictor.model # 0
    /\ \E w \in Workers :
          /\ workers[w].request = "non_numeric"
          /\ Results(w) # {}
          /\ workers[w].sent[1].reason = "no_model"

\* C10: on a loaded Predictor every failure inside predict (non-numeric
\* features, scaling or inference raising) becomes a result with
\* model_available False, confidence 0.0 and the failure as reason; predict
\* never raises into handle_client, and the client receives that result as a
\* normal response with a request_id.
C10_InferenceFailureIsResult ==
    (predictor.pc = "done" /\ predictor.model_loaded) =>
        /\ \A feat \in FeatureKinds : \A infer \in InferenceOutcomes :
              (feat = "non_numeric" \/ infer = InferenceFails) =>
                  LET r == predict(predictor, feat, infer)
                  IN /\ ~r.raised
                     /\ ~r.model_available
                     /\ r.confidence = 0
                     /\ r.prediction = -1
                     /\ r.reason = "str(e)"
        /\ \A w \in Workers :
              /\ ~workers[w].res.raised
              /\ workers[w].pc \in HasResult /\ workers[w].request = "non_numeric"
                    => workers[w].res = ErrorResult
              /\ \A i \in Results(w) :
                    /\ workers[w].sent[i].request_id > 0
                    /\ workers[w].request = "non_numeric" =>
                          /\ workers[w].sent[i].reason = "str(e)"
                          /\ ~workers[w].sent[i].model_available
                          /\ workers[w].sent[i].confidence = 0

\* C10 witness: with a loaded Predictor, a client whose numeric request made
\* inference fail received the failure as a normal response with a request_id.
C10_Witness ==
    /\ predictor.model_loaded
    /\ \E w \in Workers :
          /\ workers[w].request = "valid"
          /\ Results(w) # {}
          /\ workers[w].sent[1].reason = "str(e)"
          /\ ~workers[w].sent[1].model_available
          /\ workers[w].sent[1].request_id > 0

\* C11: a non-empty request that does not decode to an object reaches the
\* except clause without a predict call; handle_client sends exactly one
\* reply, error_response (model_available False, an error field with the
\* failure), and closes; the reply is missing only when sendall raised.
C11_MalformedGetsErrorReply ==
    /\ ~ErrorResponse.model_available
    /\ ErrorResponse.error # ""
    /\ \A w \in Workers :
          workers[w].request = "malformed" =>
              /\ workers[w].pc \in {"except", "close", "closed"}
              /\ workers[w].res = NoResult
              /\ workers[w].pc = "except" => workers[w].sent = << >>
              /\ workers[w].pc \in {"close", "closed"} =>
                    \/ workers[w].sent = <<ErrorResponse>>
                    \/ workers[w].sent = << >> /\ workers[w].send_error

\* C11 witness: a client that sent a malformed request holds the error reply
\* and its connection is closed.
C11_Witness ==
    \E w \in Workers :
        /\ workers[w].request = "malformed"
        /\ workers[w].pc = "closed"
        /\ workers[w].sent = <<ErrorResponse>>
        /\ ~workers[w].send_error

\* C12: a connection whose peer closes before sending a byte gets no
\* response, the Predictor is not called for it, its thread only closes the
\* connection, and no step of that thread changes request_count, the latency
\* window or the server's main thread.
C12_EmptyConnectionGetsNothing ==
    [][\A w \in Workers :
          workers'[w].request = "empty" =>
              /\ workers'[w].sent = << >>
              /\ workers'[w].res = NoResult
              /\ workers'[w].pc \in {"close", "closed"}
              /\ workers'[w] # workers[w] =>
                    /\ request_count' = request_count
                    /\ prediction_times' = prediction_times
                    /\ srv' = srv]_vars

\* C12 witness: an empty connection was closed without a response while the
\* server kept running and answered another client.
C12_Witness ==
    /\ srv.pc = "accept" /\ srv.running
    /\ \E v, w \in Workers :
          /\ workers[v].request = "empty"
          /\ workers[v].pc = "closed"
          /\ workers[v].sent = << >>
          /\ workers[w].request = "valid"
          /\ Results(w) # {}
          /\ request_count = 1

\* C13: the polling loop ends only by the termination signal (exit status
\* 0), self.running stays True while the process runs, and after every
\* failure of a tick or of a cycle the loop sleeps and comes back to the
\* while test for the next tick, unless the signal arrives first.
C13_TickFailureNeverEndsLoop ==
    /\ [][(pc # "exited" /\ pc' = "exited") => exit_status' = 0]_vars
    /\ [](pc \in ({"loop", "sleep"} \cup InCycle) => running)
    /\ (pc \in {"invalid", "except", "sleep"}) ~> (pc \in {"loop", "exited"})

\* C13 witness: the loop is back at its while test after a cycle that raised.
C13_Witness ==
    /\ pc = "loop"
    /\ running
    /\ outcome = "raised"

\* C14: once the termination signal was handled, the listening socket is
\* closed, self.running is False, the exit status is 0 and no connection is
\* accepted any more; while the server accepts, the handler can run whatever
\* the handle_client threads are doing, and no delivered signal leaves the
\* server accepting.
C14_ShutdownStopsAccepting ==
    /\ srv.pc = "exited" =>
          /\ srv.sock = "closed"
          /\ ~srv.running
          /\ srv.exit_status = 0
          /\ ~ENABLED (\E w \in Workers : accept(w))
    /\ srv.pc = "accept" => ENABLED server_shutdown
    /\ srv.pc = "accept" => ~srv.shutdown_error

\* C14 witness: the server has exited while a handle_client thread was
\* still inside its request and a connection was still to come.
C14_Witness ==
    /\ srv.pc = "exited"
    /\ workers[1].pc \in {"recv", "predict", "append", "send"}
    /\ workers[2].pc = "none"

\* C15 (its bound clause): the rolling latency window never holds more
\* samples than its capacity.
C15_WindowBounded ==
    Len(prediction_times) <= MaxWindow

\* Raw probabilities in [0, 1], in percent.
ProbabilityGrid == {p \in 0..100 : p % 10 = 0}

C17_StateSurvivesRestart ==
    [][(pc = "exited" /\ pc' = "start") =>
          /\ training_count' = training_count
          /\ last_trained_samples' = last_trained_samples
          /\ exit_pc = "commit_rows" =>
                training_count' = pre.training_count]_vars

\* C18: a cycle that ends in train_model's except clause returns False with
\* the current artifact equal to the pre-cycle artifact and training_count
\* and last_trained_samples equal to their pre-cycle values.
C18_RaisedCycleRestoresPreCycle ==
    (pc = "sleep" /\ outcome = "raised") =>
        /\ current = pre.current
        /\ training_count = pre.training_count
        /\ last_trained_samples = pre.last_trained_samples

\* C19: after a failed cycle should_train is true of every row count that is
\* at least the count that fired the failed cycle, and the next tick that
\* measures such a count starts a new cycle.
C19_FailedCycleRowsReconsidered ==
    /\ [](outcome \in FailedOutcomes =>
            \A c \in current_samples..(MaxRows + 1) :
                should_train(c, training_count, last_trained_samples))
    /\ [][(/\ pc = "loop"
           /\ outcome \in FailedOutcomes
           /\ pc' \notin {"loop", "exited"}
           /\ current_samples' >= current_samples)
          => (triggered' /\ pc' = "backup")]_vars

\* C19 witness: the first training failed and the next tick started a new
\* cycle on a row count no smaller than the one that fired the failed one.
C19_Witness ==
    /\ pc = "backup"
    /\ outcome = "retrying"
    /\ training_count = 0
    /\ current_samples >= min_total_samples

\* C20: while the server accepts, the next connection can be accepted and
\* every handle_client thread can take its next step whatever the other
\* threads are doing.
C20_AcceptNeverWaits ==
    (srv.pc = "accept" /\ srv.running) =>
        \A w \in Workers :
            /\ (/\ workers[w].pc = "none"
                /\ \A v \in Workers : v < w => workers[v].pc # "none")
                  => ENABLED accept(w)
            /\ workers[w].pc \notin {"none", "closed"} => ENABLED WorkerStep(w)

\* C20 witness: the first connection's thread is still reading from its
\* client while the second connection was accepted, answered and closed.
C20_Witness ==
    /\ workers[1].pc = "recv"
    /\ workers[2].pc = "closed"
    /\ workers[2].request = "valid"
    /\ Results(2) # {}

\* C21 (its worker clause): a handle_client thread waiting for request bytes
\* does not wait forever: it leaves conn.recv, or the process has exited.
C21_WorkerWaitBounded ==
    \A w \in Workers :
        (workers[w].pc = "recv") ~> (workers[w].pc # "recv" \/ srv.pc = "exited")

\* C22: once every handle_client thread has finished, request_count equals
\* the number of requests that were decoded and passed to predict.
C22_NoIncrementLost ==
    (\A w \in Workers : workers[w].pc \in {"none", "closed"}) =>
        request_count
          = Cardinality({w \in Workers :
                            workers[w].request \in {"valid", "non_numeric"}})

\* C23: whatever the copy to the backup path did, backup_model returns
\* without raising and train_model goes on to train_modern in the same
\* cycle, which can then start writing.
C23_BackupFailureNeverBlocksTraining ==
    /\ [][(pc = "backup" /\ pc' \notin {"backup", "exited"}) =>
            /\ pc' = "train"
            /\ current' = current
            /\ outcome' = outcome
            /\ cycles' = cycles
            /\ \E how \in CopyOutcomes :
                  backup' = backup_model(current, backup, how)]_vars
    /\ [](pc = "train" => ENABLED train_open_model)

\* C23 witness: the trainer is writing the cycle's artifact although the
\* backup path does not hold a copy of the pre-cycle artifact.
C23_Witness ==
    /\ pc = "saving"
    /\ current.gen = cycles
    /\ Exists(pre.current)
    /\ backup # pre.current

\* C24: every cycle that returns False has gone through rollback_model, and
\* rollback_model with no backup file changes no file of the Model Store;
\* the cycle then returns False to the loop, which sleeps, with Trainer
\* State untouched.
C24_RollbackWithoutBackupIsNoOp ==
    [][/\ (pc # "sleep" /\ pc' = "sleep" /\ outcome' \in FailedOutcomes)
            => pc \in {"invalid", "except"}
       /\ (pc \in {"invalid", "except"} /\ pc' \notin {pc, "exited"}) =>
            /\ pc' = "sleep"
            /\ outcome' \in FailedOutcomes
            /\ backup' = backup
            /\ scaler' = scaler
            /\ state_file' = state_file
            /\ training_count' = training_count
            /\ last_trained_samples' = last_trained_samples
            /\ ~Exists(backup) => current' = current]_vars

\* C24 witness: a cycle failed validation with no backup file; the rejected
\* artifact is where the trainer wrote it and the loop sleeps.
C24_Witness ==
    /\ pc = "sleep"
    /\ outcome = "validation_failed"
    /\ ~Exists(backup)
    /\ current = [gen |-> cycles, q |-> "bad"]

\* C25: when train_modern is invoked in a cycle that started with a current
\* artifact, the backup path holds a copy of exactly that artifact, and an
\* artifact that rollback put at the current path is the one that was
\* current when the cycle started.
C25_SingleGenerationHistory ==
    /\ (pc = "train" /\ Exists(pre.current)) => backup = pre.current
    /\ (pc = "sleep" /\ outcome \in FailedOutcomes /\ current.gen # cycles)
          => current = pre.current

\* C26: a client receives at most one response on its connection, and a
\* handle_client thread that has read its request goes on to close the
\* connection (unless the process exits first).
C26_OneExchangePerConnection ==
    /\ [](\A w \in Workers : Len(workers[w].sent) <= 1)
    /\ \A w \in Workers :
          (workers[w].pc \notin {"none", "recv", "closed"})
            ~> (workers[w].pc = "closed" \/ srv.pc = "exited")

\* C26 witness: the send of a result failed, the except clause's
\* error_response got through, and the connection is closed.
C26_Witness ==
    \E w \in Workers :
        /\ workers[w].request = "valid"
        /\ workers[w].pc = "closed"
        /\ workers[w].send_error
        /\ workers[w].sent = <<ErrorResponse>>

\* C27: while the server accepts, no step (a request, or the supervisor
\* replacing the Model Store) changes the Predictor's model, scaler or
\* model_loaded; a server that loaded no model keeps answering 'no_model'
\* and one that loaded the first artifact never holds the second.
C27_PredictorFixedAtConstruction ==
    /\ [][srv.pc = "accept" => predictor' = predictor]_vars
    /\ [](srv.pc = "accept" =>
            /\ predictor.pc = "done"
            /\ predictor.model # 2
            /\ predictor.scaler # 2
            /\ \A w \in Workers : \A i \in Results(w) :
                  /\ workers[w].sent[i].model_available => predictor.model_loaded
                  /\ ~predictor.model_loaded =>
                        workers[w].sent[i].reason = "no_model")

\* C27 witness: the Model Store holds the second training run's artifact
\* while the server, started on an empty store, answers 'no_model'.
C27_Witness ==
    /\ srv.pc = "accept"
    /\ current = [gen |-> 2, q |-> "good"]
    /\ predictor.model = 0
    /\ \E w \in Workers :
          /\ Results(w) # {}
          /\ workers[w].sent[1].reason = "no_model"

\* C28: no step of a handle_client thread changes the server's running
\* flag, its listening socket or the Predictor, and a well-formed request
\* whose send did not fail has received exactly one normal response with a
\* request_id, whatever happened on the other connection.
C28_RequestFailureConfined ==
    /\ [][(workers' # workers) => (srv' = srv /\ predictor' = predictor)]_vars
    /\ [](\A w \in Workers :
            (/\ workers[w].request = "valid"
             /\ workers[w].pc = "closed"
             /\ ~workers[w].send_error) =>
                /\ Len(workers[w].sent) = 1
                /\ workers[w].sent[1].error = ""
                /\ workers[w].sent[1].request_id > 0)

\* C28 witness: one connection sent a malformed request and was closed; the
\* other, well-formed, got a prediction; the server still accepts.
C28_Witness ==
    /\ srv.pc = "accept" /\ srv.running /\ srv.sock = "listening"
    /\ \E v, w \in Workers :
          /\ workers[v].request = "malformed"
          /\ workers[v].pc = "closed"
          /\ workers[w].request = "valid"
          /\ workers[w].pc = "closed"
          /\ Results(w) # {}
          /\ workers[w].sent[1].model_available

\* C29: a tick that finds no CSV, or in which should_train is False, goes
\* straight to the sleep: no file of the Model Store, no Trainer State (in
\* memory or persisted) changes and no cycle starts; without a CSV the tick
\* can only sleep, and a cycle starts only on a true should_train.
C29_IdleTickChangesNothing ==
    [][/\ (pc = "loop" /\ pc' = "sleep") =>
            /\ ~triggered'
            /\ cycles' = cycles
            /\ current' = current
            /\ backup' = backup
            /\ scaler' = scaler
            /\ state_file' = state_file
            /\ training_count' = training_count
            /\ last_trained_samples' = last_trained_samples
       /\ (pc = "loop" /\ ~csv_exists /\ pc' \notin {"loop", "exited"})
            => pc' = "sleep"
       /\ (pc = "loop" /\ pc' = "backup") =>
            /\ csv_exists
            /\ should_train(current_samples', training_count,
                            last_trained_samples)]_vars

\* C29 witness: after a training, a tick counted too few new rows and the
\* loop sleeps.
C29_Witness ==
    /\ pc = "sleep"
    /\ outcome = "none"
    /\ csv_exists
    /\ ~triggered
    /\ training_count > 0
    /\ current_samples > 0
    /\ Exists(current)

\* C30: validate_model returns True iff the file exists, loads, gives one
\* scalar for the probe and that scalar is a number in [0.0, 1.0], and
\* False (never an exception) otherwise; the validation step of a cycle
\* changes no file and no Trainer State and decides commit or rollback by it.
C30_ValidateModelIsProbe ==
    /\ [](\A r \in ProbeRecords :
            validate_probe(r)
              = (/\ r.exists /\ r.loads /\ r.shape_ok
                 /\ r.kind = "number" /\ r.value >= 0 /\ r.value <= 100))
    /\ [][(pc = "validate" /\ pc' \notin {"validate", "exited"}) =>
            /\ current' = current
            /\ backup' = backup
            /\ scaler' = scaler
            /\ state_file' = state_file
            /\ training_count' = training_count
            /\ last_trained_samples' = last_trained_samples
            /\ pc' = IF current.q = "good" THEN "commit_count" ELSE "invalid"]_vars

\* C30 witness: validate_model returned False on a complete artifact that
\* loads but fails the probe.
C30_Witness ==
    /\ pc = "invalid"
    /\ current = [gen |-> cycles, q |-> "bad"]
    /\ outcome \in {"running", "retrying"}

\* C31: for a Predictor that loaded its model and every raw probability the
\* model returns for numeric features, predict returns prediction 1 exactly
\* when the probability is at least one half (one half itself gives 1) and 0
\* otherwise, model_available true and the probability unchanged; every
\* result a worker holds and every response it sent with model_available
\* true has the prediction of its probability.
C31_PredictionThreshold ==
    /\ (predictor.pc = "done" /\ predictor.model_loaded) =>
          \A prob \in ProbabilityGrid :
              LET r == predict(predictor, "numeric", prob)
              IN /\ r.prediction = 1 <=> prob >= 50
                 /\ r.prediction = 0 <=> prob < 50
                 /\ r.model_available
                 /\ r.probability = prob
    /\ \A w \in Workers :
          /\ (workers[w].pc \in HasResult /\ workers[w].res.model_available) =>
                /\ workers[w].res.probability \in Probabilities
                /\ workers[w].res.prediction =
                      (IF workers[w].res.probability >= 50 THEN 1 ELSE 0)
          /\ \A i \in 1..Len(workers[w].sent) :
                workers[w].sent[i].model_available =>
                    workers[w].sent[i].prediction =
                        (IF workers[w].sent[i].probability >= 50 THEN 1 ELSE 0)

\* A client received a response for a raw probability of exactly one half:
\* prediction 1, model_available true.
C31_Witness ==
    \E w \in Workers : \E i \in 1..Len(workers[w].sent) :
        /\ workers[w].sent[i].model_available
        /\ workers[w].sent[i].probability = 50
        /\ workers[w].sent[i].prediction = 1

\* C32: a cycle that started with no artifact at the current path and ends
\* by failing (validation rejected the trainer's artifact, or the trainer
\* raised) leaves no artifact at the current path, so that a rejected
\* artifact is never where a later Inference Server would load it.
C32_RejectedArtifactRemoved ==
    (pc = "sleep" /\ outcome \in FailedOutcomes /\ ~Exists(pre.current))
        => ~Exists(current)

\* C33: with min_new_samples >= 1, after a successful cycle of this process,
\* a tick at which the dataset holds as many rows as the commit recorded
\* finds should_train false and runs no cycle, and a new cycle starts only
\* when at least min_new_samples rows have been appended to the dataset
\* since that commit.
C33_NoRetrainWithoutNewRows ==
    [][(min_new_samples >= 1 /\ pc = "loop" /\ rows_at_commit # -1) =>
          /\ (rows = last_trained_samples /\ pc' \notin {"loop", "exited"})
                => (pc' = "sleep" /\ ~triggered')
          /\ pc' = "backup" => rows - rows_at_commit >= min_new_samples]_vars

\* The dataset exists and holds enough rows for the trigger policy.
Due == csv_exists /\ should_train(rows, training_count, last_trained_samples)

\* A tick that left the dataset unmeasured: its body raised, or the rows
\* could not be counted.
TickUnmeasured ==
    /\ pc = "sleep"
    /\ outcome = "none"
    /\ csv_exists /\ rows > 0
    /\ current_samples = 0

C35_CountedImpliesWindowNonEmpty ==
    (srv.pc = "accept" /\ request_count > 0) => Len(prediction_times) > 0

\* Field values a decoded trainer_state.json may hold, Absent included.
StateFieldValues == {Absent} \cup (0..MaxRows)

\* C36: constructing the supervisor never raises; on a state file that is
\* missing, unreadable or not a decodable object it starts from
\* training_count = 0 and last_trained_samples = 0, neither loaded alone;
\* on a decoded object that lacks a field, that field alone is 0 and the
\* other has the file's value.
C36_LoadStateDefaults ==
    /\ pc = "start" =>
          /\ \A f \in {MissingFile, UndecodableFile, NotObjectFile} :
                load_state(f) = [last_trained_samples |-> 0, training_count |-> 0]
          /\ \A tc \in StateFieldValues, lts \in StateFieldValues :
                /\ load_state(ObjectFile(tc, lts)).training_count =
                      (IF tc = Absent THEN 0 ELSE tc)
                /\ load_state(ObjectFile(tc, lts)).last_trained_samples =
                      (IF lts = Absent THEN 0 ELSE lts)
          /\ state_file.kind # "object" =>
                (training_count = 0 /\ last_trained_samples = 0)
          /\ state_file.kind = "object" =>
                /\ training_count =
                      (IF state_file.tc = Absent THEN 0 ELSE state_file.tc)
                /\ last_trained_samples =
                      (IF state_file.lts = Absent THEN 0 ELSE state_file.lts)
    /\ pc = "exited" => ENABLED restart

\* C36 witness: a supervisor constructed on a state file a failed write left
\* undecodable, after a cycle of the previous process had succeeded.
C36_Witness ==
    /\ pc = "start"
    /\ ever_succeeded
    /\ state_file = UndecodableFile
    /\ training_count = 0
    /\ last_trained_samples = 0

====
